---- MODULE Spec2Model ----
(***************************************************************************)
(* A model of functions.py: retrieval over a corpus of chunked documents   *)
(* held in a ClickHouse store (tables abc_table and abc_chunks).           *)
(*                                                                         *)
(* Strings are sequences of one-character strings.  Python's None is the   *)
(* value None below, a sequence that no string of the model equals.        *)
(* A fixed message of the code ("File not found.", ...) is a one-element   *)
(* sequence holding the whole message.                                     *)
(***************************************************************************)
EXTENDS Integers, Sequences, FiniteSets, TLC

VARIABLES
    archive_base_url,   \* module global, line 20: os.getenv('ARCHIVE_BASE_URL')
    abc_table,          \* store: document id -> original_filename
    abc_chunks,         \* store: set of rows [id, summary_id, chunk_text, embeddings]
    b_chunks,           \* store: rows [chunk_text, summary_id, embeddings] of b_chunks JOIN b_table
    pc,                 \* position of the call in progress
    arg,                \* arguments of the call in progress
    ret,                \* value returned by the last completed call
    raised,             \* TRUE iff the last call ended by raising an exception
    faults,             \* number of store queries that raised so far
    loc,                \* locals of the call in progress
    stack,              \* frames [pc, arg, loc] of the callers, innermost first
    calls               \* history: [arg, ret] of every call that has returned, in order

store == <<archive_base_url, abc_table, abc_chunks, b_chunks>>

vars == <<store, pc, arg, ret, raised, faults, loc, stack, calls>>

-----------------------------------------------------------------------------
(* Strings *)

None == <<"<None>">>
NoneStr == <<"N", "o", "n", "e">>
PdfExt == <<".", "p", "d", "f">>
TxtExt == <<".", "t", "x", "t">>
Slash == "/"
Dot == "."
Space == " "

StartsWith(s, p) == Len(s) >= Len(p) /\ SubSeq(s, 1, Len(p)) = p

EndsWith(s, p) == Len(s) >= Len(p) /\ SubSeq(s, Len(s) - Len(p) + 1, Len(s)) = p

\* str.find: 1-based index of the first occurrence of sub in s, 0 when absent
Find(s, sub) ==
    LET hits == {i \in 1..(Len(s) - Len(sub) + 1) : SubSeq(s, i, i + Len(sub) - 1) = sub}
    IN  IF hits = {} THEN 0 ELSE CHOOSE i \in hits : \A j \in hits : i <= j

\* str.rfind of a single character: 1-based index of its last occurrence, 0 when absent
RFind(s, c) ==
    LET hits == {i \in 1..Len(s) : s[i] = c}
    IN  IF hits = {} THEN 0 ELSE CHOOSE i \in hits : \A j \in hits : i >= j

Contains(s, sub) == Find(s, sub) # 0

\* s.split(sep, 1)[-1]: what follows the first occurrence of sep, or s itself
SplitOnceLast(s, sep) ==
    LET i == Find(s, sep)
    IN  IF i = 0 THEN s ELSE SubSeq(s, i + Len(sep), Len(s))

\* s.strip(): leading and trailing white space removed
Strip(s) ==
    LET keep == {i \in 1..Len(s) : s[i] # Space}
    IN  IF keep = {} THEN <<>>
        ELSE SubSeq(s, CHOOSE i \in keep : \A j \in keep : i <= j,
                       CHOOSE i \in keep : \A j \in keep : i >= j)

\* os.path.splitext(p)[0]: p without the extension of its last path component;
\* a component made of leading dots only has no extension
SplitextRoot(p) ==
    LET sepIndex == RFind(p, Slash)
        dotIndex == RFind(p, Dot)
    IN  IF dotIndex > sepIndex
           /\ \E k \in (sepIndex + 1)..(dotIndex - 1) : p[k] # Dot
        THEN SubSeq(p, 1, dotIndex - 1)
        ELSE p

\* urllib.parse.urlparse(u).path for strings without ':', '?', '#', ';':
\* a leading "//" opens a network location that runs to the next '/'
UrlPath(u) ==
    IF StartsWith(u, <<Slash, Slash>>)
    THEN LET rest == SubSeq(u, 3, Len(u))
             i == Find(rest, <<Slash>>)
         IN  IF i = 0 THEN <<>> ELSE SubSeq(rest, i, Len(rest))
    ELSE u

\* s.split('/')[-1], which is also os.path.basename(s)
LastSegment(s) == SubSeq(s, RFind(s, Slash) + 1, Len(s))

\* s.replace(sub, ""): every occurrence removed, scanning left to right
RECURSIVE Remove(_, _)
Remove(s, sub) ==
    LET i == Find(s, sub)
    IN  IF i = 0 THEN s
        ELSE SubSeq(s, 1, i - 1) \o Remove(SubSeq(s, i + Len(sub), Len(s)), sub)

-----------------------------------------------------------------------------
(* Bounds of the model *)

\* a stored file name is built from at most MaxParts pieces of NamePieces
MaxParts == 3
\* store faults (a client.execute that raises) injected into one call
MaxFaults == 2

-----------------------------------------------------------------------------
(* The store and the URL resolver *)

DocIds == {"d1", "d2", "d3"}

\* f"{archive_base_url}": an unset environment variable formats as "None"
BaseStr == IF archive_base_url = None THEN NoneStr ELSE archive_base_url

\* lines 93-96 and 315-318: the last path segment of the stored file name,
\* without the "None" artifact and the extension
ResolvedFilename(original_filename) ==
    LET stripped == Strip(SplitOnceLast(original_filename, NoneStr))
        filename_without_ext == SplitextRoot(stripped)
    IN  LastSegment(UrlPath(filename_without_ext))

\* lines 97 and 319: file_url = f"{archive_base_url}{filename}"
FileUrlOf(original_filename) == BaseStr \o ResolvedFilename(original_filename)

\* get_random_filename(client): the URL of a document drawn at random, or None
\* when the table is empty or the query raises.  budget bounds the faults
\* still to inject; an outcome is [val, nf] with nf the faults it used.
get_random_filename(budget) ==
    (IF DOMAIN abc_table = {}
     THEN {[val |-> None, nf |-> 0]}
     ELSE {[val |-> FileUrlOf(abc_table[d]), nf |-> 0] : d \in DOMAIN abc_table})
    \cup (IF budget >= 1 THEN {[val |-> None, nf |-> 1]} ELSE {})

\* get_original_filename(client, summary_id)
get_original_filename(summary_id, budget) ==
    (IF summary_id \in DOMAIN abc_table
     THEN {[val |-> FileUrlOf(abc_table[summary_id]), nf |-> 0]}
     ELSE get_random_filename(budget))
    \cup (IF budget >= 1
          THEN {[val |-> o.val, nf |-> o.nf + 1] : o \in get_random_filename(budget - 1)}
          ELSE {})

FILE_NOT_FOUND == <<"File not found.">>
DESCRIPTION_NOT_FOUND == <<"Description not found.">>
ERROR_RETRIEVING == <<"Error retrieving description.">>
Ellipsis == <<".", ".", ".">>

DescriptionLimit == 250
DescriptionKeep == 247

\* line 297: the description cut to 247 characters and an ellipsis when longer than 250
Truncate(full_description) ==
    IF Len(full_description) > DescriptionLimit
    THEN SubSeq(full_description, 1, DescriptionKeep) \o Ellipsis
    ELSE full_description

\* lines 273-276: the file name the description query looks for
DescriptionKey(filename) ==
    LET base == LastSegment(filename)
        withext == IF EndsWith(base, PdfExt) THEN base ELSE base \o PdfExt
    IN  Remove(withext, NoneStr)

\* rows of  SELECT chunk_text FROM abc_chunks WHERE summary_id = .. ORDER BY id ASC LIMIT 1
FirstChunkTexts(summary_id) ==
    {c.chunk_text : c \in {x \in abc_chunks : x.summary_id = summary_id
                             /\ \A y \in abc_chunks : y.summary_id = summary_id => x.id <= y.id}}

\* get_pdf_description(filename)
get_pdf_description(filename, budget) ==
    IF filename = None
    THEN {[val |-> ERROR_RETRIEVING, nf |-> 0]}   \* os.path.basename(None) raises
    ELSE LET key == DescriptionKey(filename)
             ids == {d \in DOMAIN abc_table : abc_table[d] = key}
         IN  (IF ids = {}
              THEN {[val |-> FILE_NOT_FOUND, nf |-> 0]}
              ELSE UNION {IF FirstChunkTexts(d) = {}
                          THEN {[val |-> DESCRIPTION_NOT_FOUND, nf |-> 0]}
                          ELSE {[val |-> Truncate(t), nf |-> 0] : t \in FirstChunkTexts(d)}
                          : d \in ids})
             \cup (IF budget >= 1 THEN {[val |-> ERROR_RETRIEVING, nf |-> 1]} ELSE {})

-----------------------------------------------------------------------------
(* Resolver and describer: get_original_filename, then get_pdf_description *)

NamePieces == {NoneStr, <<Slash>>, <<"a">>, PdfExt, TxtExt, <<Space>>}

RECURSIVE NamesUpTo(_)
NamesUpTo(n) ==
    IF n = 0 THEN {<<>>}
    ELSE NamesUpTo(n - 1) \cup {p \o x : p \in NamePieces, x \in NamesUpTo(n - 1)}

BaseUrls == {<<"h", Slash>>, <<"h">>, None}

\* a text longer than the description limit, one exactly at it, and short ones
LongText(d) == [k \in 1..(DescriptionLimit + 1) |-> d]
EdgeText(d) == [k \in 1..DescriptionLimit |-> d]
ShortText(d, i) == <<d, "#", <<"0", "1", "2", "3", "4">>[i + 1]>>

\* the chunk rows a document may have in the resolver runs
ShortChunks(d) ==
    {[id |-> 0, summary_id |-> d, chunk_text |-> ShortText(d, 0), embeddings |-> <<1, 0>>],
     [id |-> 1, summary_id |-> d, chunk_text |-> ShortText(d, 1), embeddings |-> <<0, 1>>]}

ChunkLayouts(d) ==
    { {}, ShortChunks(d),
      {[id |-> 3, summary_id |-> d, chunk_text |-> LongText(d), embeddings |-> <<1, 0>>],
       [id |-> 4, summary_id |-> d, chunk_text |-> ShortText(d, 4), embeddings |-> <<0, 1>>]},
      {[id |-> 2, summary_id |-> d, chunk_text |-> EdgeText(d), embeddings |-> <<1, 1>>]} }

ResolveInit ==
    /\ archive_base_url \in BaseUrls
    /\ \E ds \in {{"d1"}, {"d1", "d2"}} : abc_table \in [ds -> NamesUpTo(MaxParts - 1) \ {<<>>}]
    /\ \E c1 \in ChunkLayouts("d1"), c2 \in {{}, ShortChunks("d2")} : abc_chunks = c1 \cup c2
    /\ pc = "idle"
    /\ arg = <<>>
    /\ ret = <<>>
    /\ raised = FALSE
    /\ faults = 0
    /\ loc = <<>>
    /\ stack = <<>>
    /\ calls = <<>>
    /\ b_chunks = {}

\* file_url = get_original_filename(client, summary_id)
ResolveCall ==
    /\ pc = "idle"
    /\ \E summary_id \in DocIds :
       \E o \in get_original_filename(summary_id, MaxFaults - faults) :
          /\ arg' = [summary_id |-> summary_id]
          /\ ret' = o.val
          /\ faults' = faults + o.nf
    /\ pc' = "resolved"
    /\ UNCHANGED <<store, raised, loc, stack, calls>>

\* description = get_pdf_description(file_url)
DescribeCall ==
    /\ pc = "resolved"
    /\ \E o \in get_pdf_description(ret, MaxFaults - faults) :
          /\ loc' = [summary_id |-> arg.summary_id, file_url |-> ret]
          /\ arg' = [filename |-> ret]
          /\ ret' = o.val
          /\ faults' = faults + o.nf
    /\ pc' = "described"
    /\ UNCHANGED <<store, raised, stack, calls>>

ResolveNext == ResolveCall \/ DescribeCall

SpecResolve == ResolveInit /\ [][ResolveNext]_vars

-----------------------------------------------------------------------------
(* deduplicate_results(client, closest_chunks, top_n), lines 326-350 *)

\* largest top_n a caller passes
MaxTopN == 3
\* longest candidate list handed to deduplicate_results
MaxCands == 3

NO_CONTENT == <<"No content available">>
NO_FILE == <<"No file available">>
NO_ADDITIONAL_CONTENT == <<"No additional unique content available">>

\* [x] * n
Repeat(x, n) == [k \in 1..n |-> x]

\* s[:n]
Prefix(s, n) == SubSeq(s, 1, IF n < Len(s) THEN n ELSE Len(s))

\* line 335: the loop over the candidates breaks once top_n are collected
Collected(full_contexts, top_n) == Len(full_contexts) >= top_n

\* the membership test of line 338 left out: every candidate counts as new
IsNewFilenameUntested(file_url, seen_filenames) == TRUE

\* line 338: file_url not in seen_filenames
IsNewFilename(file_url, seen_filenames) == file_url \notin seen_filenames

\* the seen_filenames.add of line 341 left out
SeenAddForgotten(seen_filenames, file_url) == seen_filenames

\* line 341: seen_filenames.add(file_url)
SeenAdd(seen_filenames, file_url) == seen_filenames \cup {file_url}

\* line 343: while len(pdf_filenames) < top_n
NeedsBackfill(pdf_filenames, top_n) == Len(pdf_filenames) < top_n

\* line 345: random_filename and random_filename not in seen_filenames
\* (None and the empty string are both false)
UsableFiller(random_filename, seen_filenames) ==
    /\ random_filename # None
    /\ random_filename # <<>>
    /\ random_filename \notin seen_filenames

\* the call ends: the value goes to the caller's frame, or the run is done;
\* arg.fn names the function the current frame runs
Return(value) ==
    /\ ret' = value
    /\ raised' = FALSE
    /\ calls' = Append(calls, [arg |-> arg, ret |-> value])
    /\ IF stack = <<>>
       THEN /\ pc' = "done"
            /\ UNCHANGED <<arg, loc, stack>>
       ELSE /\ pc' = Head(stack).pc
            /\ arg' = Head(stack).arg
            /\ loc' = Head(stack).loc
            /\ stack' = Tail(stack)

\* lines 327-332: the empty input returns the placeholders, any other starts the loop
DedupEnter ==
    /\ pc = "dedup_enter"
    /\ IF arg.closest_chunks = <<>>
       THEN /\ Return(<<Repeat(NO_CONTENT, arg.top_n), Repeat(NO_FILE, arg.top_n)>>)
            /\ UNCHANGED faults
       ELSE /\ pc' = "dedup_for"
            /\ loc' = [full_contexts |-> <<>>, pdf_filenames |-> <<>>,
                       seen_filenames |-> {}, i |-> 1]
            /\ UNCHANGED <<arg, ret, raised, faults, stack, calls>>
    /\ UNCHANGED store

\* lines 334-341: one iteration of the loop over closest_chunks
DedupFor ==
    /\ pc = "dedup_for"
    /\ IF loc.i > Len(arg.closest_chunks) \/ Collected(loc.full_contexts, arg.top_n)
       THEN /\ pc' = "dedup_while"
            /\ UNCHANGED loc
       ELSE LET chunk == arg.closest_chunks[loc.i]
                full_context == chunk[1]
                file_url == chunk[2]
            IN  /\ pc' = "dedup_for"
                /\ IF IsNewFilename(file_url, loc.seen_filenames)
                   THEN loc' = [full_contexts |-> Append(loc.full_contexts, full_context),
                                pdf_filenames |-> Append(loc.pdf_filenames, file_url),
                                seen_filenames |-> SeenAdd(loc.seen_filenames, file_url),
                                i |-> loc.i + 1]
                   ELSE loc' = [loc EXCEPT !.i = loc.i + 1]
    /\ UNCHANGED <<store, arg, ret, raised, faults, stack, calls>>

\* line 343 and line 350: the loop condition; when false the slices are returned
DedupWhile ==
    /\ pc = "dedup_while"
    /\ IF NeedsBackfill(loc.pdf_filenames, arg.top_n)
       THEN /\ pc' = "dedup_sample"
            /\ UNCHANGED <<arg, ret, raised, loc, stack, calls>>
       ELSE Return(<<Prefix(loc.full_contexts, arg.top_n), Prefix(loc.pdf_filenames, arg.top_n)>>)
    /\ UNCHANGED <<store, faults>>

\* lines 344-348: one random draw, appended as a filler when usable
DedupSample ==
    /\ pc = "dedup_sample"
    /\ \E o \in get_random_filename(MaxFaults - faults) :
          /\ faults' = faults + o.nf
          /\ IF UsableFiller(o.val, loc.seen_filenames)
             THEN loc' = [loc EXCEPT
                            !.full_contexts = Append(@, NO_ADDITIONAL_CONTENT),
                            !.pdf_filenames = Append(@, o.val),
                            !.seen_filenames = SeenAdd(@, o.val)]
             ELSE UNCHANGED loc
    /\ pc' = "dedup_while"
    /\ UNCHANGED <<store, arg, ret, raised, stack, calls>>

deduplicate_results == DedupEnter \/ DedupFor \/ DedupWhile \/ DedupSample

DedupNames == {<<"a">> \o PdfExt, <<"b">> \o PdfExt, <<"c">> \o PdfExt}

\* the urls a candidate may carry: those of the stored documents, and None
\* (a candidate is a chunk of a stored document, so an empty table has none)
CandidateUrls ==
    IF DOMAIN abc_table = {} THEN {}
    ELSE {FileUrlOf(abc_table[d]) : d \in DOMAIN abc_table} \cup {None}

\* the context of the candidate at rank i
Context(i) == <<"ctx", i>>

CandidateLists ==
    UNION {{[i \in 1..n |-> <<Context(i), u[i]>>] : u \in [1..n -> CandidateUrls]}
           : n \in 0..MaxCands}

DedupInit ==
    /\ archive_base_url = <<"h", Slash>>
    /\ \E ds \in {{}, {"d1"}, {"d1", "d2"}, {"d1", "d2", "d3"}} : abc_table \in [ds -> DedupNames]
    /\ abc_chunks = {}
    /\ pc = "dedup_enter"
    /\ \E cs \in CandidateLists, n \in 1..MaxTopN : arg = [fn |-> "deduplicate_results", closest_chunks |-> cs, top_n |-> n]
    /\ ret = <<>>
    /\ raised = FALSE
    /\ faults = 0
    /\ loc = <<>>
    /\ stack = <<>>
    /\ calls = <<>>
    /\ b_chunks = {}

DedupNext == deduplicate_results

SpecDedup == DedupInit /\ [][DedupNext]_vars

-----------------------------------------------------------------------------
(* Properties of deduplicate_results, checked under SpecDedup *)

IsFiller(context) == context \in {NO_ADDITIONAL_CONTENT, NO_CONTENT}

\* C1: for a non-empty corpus, a non-empty candidate list and top_n >= 1, what
\* deduplicate_results returns holds exactly top_n contexts and exactly top_n
\* urls, and the urls of the returned non-filler entries are pairwise distinct.
DedupReturnsTopNDistinct ==
    (pc = "done" /\ DOMAIN abc_table # {} /\ arg.closest_chunks # <<>> /\ arg.top_n >= 1)
    => /\ Len(ret[1]) = arg.top_n
       /\ Len(ret[2]) = arg.top_n
       /\ \A i, j \in 1..Len(ret[2]) :
             (i < j /\ ~IsFiller(ret[1][i]) /\ ~IsFiller(ret[1][j])) => ret[2][i] # ret[2][j]

\* C1 witness: a return with two kept candidates and a filler behind them
DedupReturnsTopNDistinctWitness ==
    /\ pc = "done"
    /\ DOMAIN abc_table # {}
    /\ Len(arg.closest_chunks) = 3
    /\ arg.top_n = 3
    /\ ~IsFiller(ret[1][1])
    /\ ~IsFiller(ret[1][2])
    /\ IsFiller(ret[1][3])

\* C2: the backfill loop draws a random document only while some document url
\* of the corpus is not yet in the result; with the corpus exhausted (or empty,
\* or the lookup returning null) it stops instead of drawing again.
BackfillStopsWhenCorpusExhausted ==
    pc = "dedup_sample"
    => \E d \in DOMAIN abc_table : UsableFiller(FileUrlOf(abc_table[d]), loc.seen_filenames)

\* ranks of the candidates whose url no earlier candidate carries
FirstOccurrences(cs) == {i \in 1..Len(cs) : \A j \in 1..(i - 1) : cs[j][2] # cs[i][2]}

\* the k-th smallest element of a set of numbers
NthOf(S, k) == CHOOSE i \in S : Cardinality({j \in S : j <= i}) = k

Min(a, b) == IF a < b THEN a ELSE b

\* C3: the non-filler part of the output is the sequence of first occurrences
\* of each distinct url of the input, in rank order, cut off after top_n, each
\* with the context it is paired with in the input; everything behind is filler.
DedupKeepsFirstOccurrencesInOrder ==
    (pc = "done" /\ arg.closest_chunks # <<>>)
    => LET cs == arg.closest_chunks
           S == FirstOccurrences(cs)
           K == Min(Cardinality(S), arg.top_n)
       IN  /\ Len(ret[1]) >= K
           /\ Len(ret[2]) = Len(ret[1])
           /\ \A k \in 1..Len(ret[1]) :
                 IF k <= K
                 THEN ret[1][k] = cs[NthOf(S, k)][1] /\ ret[2][k] = cs[NthOf(S, k)][2]
                 ELSE IsFiller(ret[1][k])

\* C3 witness: a duplicate at rank 2 is skipped, rank 3 is kept, rank 1 and 3 fill top_n = 2
DedupKeepsFirstOccurrencesWitness ==
    /\ pc = "done"
    /\ Len(arg.closest_chunks) = 3
    /\ arg.top_n = 2
    /\ arg.closest_chunks[1][2] = arg.closest_chunks[2][2]
    /\ arg.closest_chunks[3][2] # arg.closest_chunks[1][2]
    /\ ret[1] = <<Context(1), Context(3)>>

-----------------------------------------------------------------------------
(* Property of the resolver and the describer, checked under SpecResolve *)

\* C7: for every stored document D with chunks, whatever its original_filename,
\* get_pdf_description(get_original_filename(D.id)) returns the text of D's
\* lowest-ordinal chunk, cut to the description limit when longer: not another
\* document's text and not "File not found.".  (Stated for a base url that ends
\* in '/', for a file name whose last segment is not empty, and for calls in
\* which no store query raised.)
DescribeOfResolveIsOwnFirstChunk ==
    (/\ pc = "described"
     /\ faults = 0
     /\ archive_base_url = <<"h", Slash>>
     /\ loc.summary_id \in DOMAIN abc_table
     /\ ResolvedFilename(abc_table[loc.summary_id]) # <<>>
     /\ FirstChunkTexts(loc.summary_id) # {})
    => ret \in {Truncate(t) : t \in FirstChunkTexts(loc.summary_id)}

-----------------------------------------------------------------------------
(* get_surrounding_chunks(client, id, summary_id, window_size=2), lines 74-85 *)

\* largest chunk ordinal of a document
MaxOrd == 4
\* largest window_size a caller passes
MaxWindow == 2

DefaultWindowSize == 2

\* the chunk text stored for ordinal i of document d
Digit(i) == <<"0", "1", "2", "3", "4", "5", "6", "7", "8", "9">>[i + 1]

TextOf(d, i) == <<d, Digit(i)>>

\* the WHERE clause of lines 78-80 without its summary_id condition
SurroundingRowsOfAnyDocument(id, summary_id, window_size) ==
    {c \in abc_chunks : c.id >= id - window_size /\ c.id <= id + window_size}

\* the WHERE clause of lines 78-80
SurroundingRows(id, summary_id, window_size) ==
    {c \in abc_chunks : /\ c.summary_id = summary_id
                        /\ c.id >= id - window_size
                        /\ c.id <= id + window_size}

\* ORDER BY id: the rows as a sequence, lowest id first
RECURSIVE OrderById(_)
OrderById(rows) ==
    IF rows = {} THEN <<>>
    ELSE LET first == CHOOSE c \in rows : \A x \in rows : c.id <= x.id
         IN  <<first>> \o OrderById(rows \ {first})

\* ' '.join(texts)
RECURSIVE JoinSpace(_)
JoinSpace(texts) ==
    IF texts = <<>> THEN <<>>
    ELSE IF Len(texts) = 1 THEN texts[1]
    ELSE texts[1] \o <<Space>> \o JoinSpace(Tail(texts))

\* what get_surrounding_chunks returns, or that it raises: its one store query
\* is not guarded by a try
get_surrounding_chunks(id, summary_id, window_size, budget) ==
    LET surrounding_chunks == OrderById(SurroundingRows(id, summary_id, window_size))
        texts == [k \in 1..Len(surrounding_chunks) |-> surrounding_chunks[k].chunk_text]
    IN  {[val |-> JoinSpace(texts), nf |-> 0, exc |-> FALSE]}
        \cup (IF budget >= 1 THEN {[val |-> None, nf |-> 1, exc |-> TRUE]} ELSE {})

ContextInit ==
    /\ archive_base_url = <<"h", Slash>>
    /\ abc_table = [d \in {"d1", "d2"} |-> <<d>> \o PdfExt]
    /\ \E o1 \in SUBSET (0..MaxOrd), o2 \in SUBSET (0..MaxOrd) :
          abc_chunks = {[id |-> i, summary_id |-> "d1", chunk_text |-> TextOf("d1", i),
                         embeddings |-> <<1, 0>>] : i \in o1}
                       \cup {[id |-> i, summary_id |-> "d2", chunk_text |-> TextOf("d2", i),
                              embeddings |-> <<0, 1>>] : i \in o2}
    /\ pc = "idle"
    /\ arg = <<>>
    /\ ret = <<>>
    /\ raised = FALSE
    /\ faults = 0
    /\ loc = <<>>
    /\ stack = <<>>
    /\ calls = <<>>
    /\ b_chunks = {}

\* a call with window_size given
ContextCall ==
    /\ pc = "idle"
    /\ \E id \in 0..MaxOrd, summary_id \in DocIds, window_size \in 0..MaxWindow :
       \E o \in get_surrounding_chunks(id, summary_id, window_size, MaxFaults - faults) :
          /\ arg' = [id |-> id, summary_id |-> summary_id, window_size |-> window_size]
          /\ ret' = o.val
          /\ raised' = o.exc
          /\ faults' = faults + o.nf
    /\ pc' = "done"
    /\ UNCHANGED <<store, loc, stack, calls>>

\* a call that leaves window_size to its default
ContextCallDefault ==
    /\ pc = "idle"
    /\ \E id \in 0..MaxOrd, summary_id \in DocIds :
       \E o \in get_surrounding_chunks(id, summary_id, DefaultWindowSize, MaxFaults - faults) :
          /\ arg' = [id |-> id, summary_id |-> summary_id]
          /\ ret' = o.val
          /\ raised' = o.exc
          /\ faults' = faults + o.nf
    /\ pc' = "done"
    /\ UNCHANGED <<store, loc, stack, calls>>

ContextNext == ContextCall \/ ContextCallDefault

SpecContext == ContextInit /\ [][ContextNext]_vars

-----------------------------------------------------------------------------
(* Property of get_surrounding_chunks, checked under SpecContext *)

\* the texts of document d at the ordinals lo..hi that are stored, lowest
\* first, a single space between two neighbours
RECURSIVE WindowText(_, _, _)
WindowText(d, lo, hi) ==
    IF lo > hi THEN <<>>
    ELSE LET here == {c \in abc_chunks : c.summary_id = d /\ c.id = hi}
             before == WindowText(d, lo, hi - 1)
         IN  IF here = {} THEN before
             ELSE IF before = <<>> THEN (CHOOSE c \in here : TRUE).chunk_text
             ELSE before \o <<Space>> \o (CHOOSE c \in here : TRUE).chunk_text

\* C9: get_surrounding_chunks(id, summary_id, window_size) returns the texts of
\* exactly the chunks of document summary_id with ordinal in
\* [id - window_size, id + window_size], in ascending ordinal order, joined by
\* single spaces, window_size being 2 when not given; with no chunk in the
\* range it returns the empty string.
SurroundingChunksAreTheWindow ==
    (pc = "done" /\ ~raised)
    => LET w == IF "window_size" \in DOMAIN arg THEN arg.window_size ELSE 2
       IN  /\ ret = WindowText(arg.summary_id, arg.id - w, arg.id + w)
           /\ (\A c \in abc_chunks :
                  ~(c.summary_id = arg.summary_id /\ c.id >= arg.id - w /\ c.id <= arg.id + w))
              => ret = <<>>

\* C9 witness: a default-window call in the middle of a document with a gap,
\* beside another document that has a chunk in the same range
SurroundingChunksWitness ==
    /\ pc = "done"
    /\ ~raised
    /\ "window_size" \notin DOMAIN arg
    /\ arg.id = 2
    /\ arg.summary_id = "d1"
    /\ {c.id : c \in {x \in abc_chunks : x.summary_id = "d1"}} = {0, 1, 2, 4}
    /\ \E c \in abc_chunks : c.summary_id = "d2" /\ c.id = 3
    /\ ret = TextOf("d1", 0) \o <<Space>> \o TextOf("d1", 1) \o <<Space>>
             \o TextOf("d1", 2) \o <<Space>> \o TextOf("d1", 4)

-----------------------------------------------------------------------------
(* Important words and the keyword stage, lines 68-71 and 222-229 *)

\* longest query text, in characters
MaxQueryLen == 3
\* longest chunk text, in characters
MaxTextLen == 3

\* the characters of the model: letters in both cases, the underscore (a word
\* character of the regular expression \w) and the space
QueryChars == {"a", "b", "A", "_", Space}
WordChars == {"a", "b", "A", "_"}

\* str.lower and ClickHouse lower, character by character
LowerChar(c) == IF c = "A" THEN "a" ELSE IF c = "B" THEN "b" ELSE c
Lower(s) == [k \in 1..Len(s) |-> LowerChar(s[k])]

\* the fixed stop-word set of module stop_words
stop_words == {<<"a", "a">>}

\* re.findall(r'\b\w+\b', s): the maximal runs of word characters, left to right
RECURSIVE FindWords(_)
FindWords(s) ==
    IF s = <<>> THEN <<>>
    ELSE IF s[1] \notin WordChars THEN FindWords(Tail(s))
    ELSE LET stops == {k \in 1..Len(s) : s[k] \notin WordChars}
             n == IF stops = {} THEN Len(s)
                  ELSE (CHOOSE k \in stops : \A j \in stops : k <= j) - 1
         IN  <<SubSeq(s, 1, n)>> \o FindWords(SubSeq(s, n + 1, Len(s)))

\* extract_important_words(query_text)
extract_important_words(query_text) ==
    LET words == FindWords(Lower(query_text))
    IN  SelectSeq(words, LAMBDA word : word \notin stop_words)

\* '%'.join(words)
RECURSIVE JoinPercent(_)
JoinPercent(words) ==
    IF words = <<>> THEN <<>>
    ELSE IF Len(words) = 1 THEN words[1]
    ELSE words[1] \o <<"%">> \o JoinPercent(Tail(words))

\* line 223: word_query = '%' + '%'.join(important_words) + '%'
WordQuery(important_words) == <<"%">> \o JoinPercent(important_words) \o <<"%">>

\* ClickHouse  text LIKE pattern:  % matches any run of characters, _ matches
\* any single character, every other character matches itself
RECURSIVE Like(_, _)
Like(text, pattern) ==
    IF pattern = <<>> THEN text = <<>>
    ELSE IF pattern[1] = "%"
         THEN Like(text, Tail(pattern)) \/ (text # <<>> /\ Like(Tail(text), pattern))
    ELSE IF pattern[1] = "_"
         THEN text # <<>> /\ Like(Tail(text), Tail(pattern))
    ELSE text # <<>> /\ text[1] = pattern[1] /\ Like(Tail(text), Tail(pattern))

\* line 227: lower(chunk_text) LIKE lower('{word_query}')
KeywordMatch(chunk_text, important_words) ==
    Like(Lower(chunk_text), Lower(WordQuery(important_words)))

RECURSIVE StringsUpTo(_, _)
StringsUpTo(chars, n) ==
    IF n = 0 THEN {<<>>}
    ELSE StringsUpTo(chars, n - 1) \cup {<<c>> \o x : c \in chars, x \in StringsUpTo(chars, n - 1)}

KeywordInit ==
    /\ archive_base_url = <<"h", Slash>>
    /\ abc_table = [d \in {"d1"} |-> <<"a">> \o PdfExt]
    /\ \E t \in StringsUpTo(QueryChars, MaxTextLen) :
          abc_chunks = {[id |-> 0, summary_id |-> "d1", chunk_text |-> t, embeddings |-> <<1, 0>>]}
    /\ pc = "idle"
    /\ \E q \in StringsUpTo(QueryChars, MaxQueryLen) : arg = [query_text |-> q]
    /\ ret = <<>>
    /\ raised = FALSE
    /\ faults = 0
    /\ loc = <<>>
    /\ stack = <<>>
    /\ calls = <<>>
    /\ b_chunks = {}

\* line 441: important_words = extract_important_words(query_text)
KeywordExtract ==
    /\ pc = "idle"
    /\ pc' = "words"
    /\ loc' = [important_words |-> extract_important_words(arg.query_text)]
    /\ UNCHANGED <<store, arg, ret, raised, faults, stack, calls>>

\* lines 223-229: the Stage 1 query; matched_chunks are the rows it returns
KeywordStage1 ==
    /\ pc = "words"
    /\ pc' = "done"
    /\ ret' = {c \in abc_chunks : KeywordMatch(c.chunk_text, loc.important_words)}
    /\ UNCHANGED <<store, arg, raised, faults, loc, stack, calls>>

KeywordNext == KeywordExtract \/ KeywordStage1

SpecKeyword == KeywordInit /\ [][KeywordNext]_vars

-----------------------------------------------------------------------------
(* Property of the keyword stage, checked under SpecKeyword *)

\* every word occurs literally in text, in the listed order, each occurrence
\* starting at or after position from and after the end of the one before
RECURSIVE OccurInOrder(_, _, _)
OccurInOrder(words, text, from) ==
    \/ words = <<>>
    \/ \E i \in from..(Len(text) - Len(words[1]) + 1) :
          /\ SubSeq(text, i, i + Len(words[1]) - 1) = words[1]
          /\ OccurInOrder(Tail(words), text, i + Len(words[1]))

\* C5: Stage 1 matches a chunk exactly when its lowercased text contains every
\* important word literally as a substring, in the listed order, each
\* occurrence after the end of the one before, whatever the case of the text.
Stage1MatchesLiteralWordsInOrder ==
    pc = "done"
    => \A c \in abc_chunks :
          (c \in ret) <=> OccurInOrder(loc.important_words, Lower(c.chunk_text), 1)

-----------------------------------------------------------------------------
(* Similarity ranking, lines 107-216 *)

Dot2(a, b) == a[1] * b[1] + a[2] * b[2]

\* cosine_similarity(a, q) >= cosine_similarity(b, q) for non-zero vectors,
\* with dot(x, q) / sqrt(dot(x, x)) compared in integers
CosGE(a, b, q) ==
    LET na == Dot2(a, q)
        nb == Dot2(b, q)
    IN  IF na >= 0 /\ nb >= 0 THEN na * na * Dot2(b, b) >= nb * nb * Dot2(a, a)
        ELSE IF na >= 0 THEN TRUE
        ELSE IF nb >= 0 THEN FALSE
        ELSE na * na * Dot2(b, b) <= nb * nb * Dot2(a, a)

\* LpDistance(a, q, 2) <= LpDistance(b, q, 2), compared by the squares
EuclidLE(a, b, q) ==
    LET d(x) == (x[1] - q[1]) * (x[1] - q[1]) + (x[2] - q[2]) * (x[2] - q[2])
    IN  d(a) <= d(b)

\* FROM abc_chunks AS c JOIN abc_table AS a ON c.summary_id = a.id
JoinRows(rows) == {c \in rows : c.summary_id \in DOMAIN abc_table}

\* ORDER BY cosine_similarity DESC LIMIT n: every order the store may return,
\* rows of equal score in any order
RECURSIVE RankedTop(_, _, _)
RankedTop(rows, q, n) ==
    IF n <= 0 \/ rows = {} THEN {<<>>}
    ELSE LET best == {r \in rows : \A x \in rows : CosGE(r.embeddings, x.embeddings, q)}
         IN  UNION {{<<r>> \o t : t \in RankedTop(rows \ {r}, q, n - 1)} : r \in best}

\* an exception leaves a function that has no handler: the run ends raising,
\* or the except clause of process_query_clickhouse_pdf (lines 482-485), the
\* caller, returns its placeholders
ERROR_OCCURRED == <<"Error occurred">>

RaiseOut ==
    IF stack = <<>>
    THEN /\ pc' = "done"
         /\ raised' = TRUE
         /\ ret' = None
         /\ UNCHANGED <<arg, loc, stack, calls>>
    ELSE LET caller == Head(stack)
             value == <<Repeat(ERROR_OCCURRED, caller.arg.top_n),
                        Repeat(ERROR_OCCURRED, caller.arg.top_n),
                        Repeat(ERROR_OCCURRED, caller.arg.top_n)>>
         IN  /\ pc' = "done"
             /\ raised' = FALSE
             /\ ret' = value
             /\ arg' = caller.arg
             /\ loc' = caller.loc
             /\ stack' = Tail(stack)
             /\ calls' = Append(calls, [arg |-> caller.arg, ret |-> value])

\* a call: the caller's frame is pushed with the position to resume at
Call(entry, callee_arg, resume) ==
    /\ stack' = <<[pc |-> resume, arg |-> arg, loc |-> loc]>> \o stack
    /\ arg' = callee_arg
    /\ loc' = <<>>
    /\ pc' = entry
    /\ UNCHANGED <<ret, raised, calls>>

NoResult == <<None, None>>

\* the rows a single-best strategy may get from ORDER BY .. LIMIT 1
BestByCosine(q) == {r \in b_chunks : \A x \in b_chunks : CosGE(r.embeddings, x.embeddings, q)}
BestByEuclid(q) == {r \in b_chunks : \A x \in b_chunks : EuclidLE(r.embeddings, x.embeddings, q)}

\* the body shared by the three single-best strategies: the query, then the
\* file name of the first row; every exception ends in return None, None
SingleBest(fn, best) ==
    /\ pc = "single_best"
    /\ arg.fn = fn
    /\ \/ /\ arg.question_embedding = None
          /\ Return(NoResult)
          /\ UNCHANGED faults
       \/ /\ arg.question_embedding # None
          /\ faults < MaxFaults
          /\ faults' = faults + 1
          /\ Return(NoResult)
       \/ /\ arg.question_embedding # None
          /\ IF best = {}
             THEN Return(NoResult) /\ UNCHANGED faults
             ELSE \E r \in best :
                  \E u \in get_original_filename(r.summary_id, MaxFaults - faults) :
                     /\ faults' = faults + u.nf
                     /\ Return(<<r.chunk_text, u.val>>)
    /\ UNCHANGED store

cosine_similarity ==
    SingleBest("cosine_similarity",
               IF arg.question_embedding = None THEN {} ELSE BestByCosine(arg.question_embedding))

vector_search_cosine_distance ==
    SingleBest("vector_search_cosine_distance",
               IF arg.question_embedding = None THEN {} ELSE BestByCosine(arg.question_embedding))

euclidean_search ==
    SingleBest("euclidean_search",
               IF arg.question_embedding = None THEN {} ELSE BestByEuclid(arg.question_embedding))

-----------------------------------------------------------------------------
(* ann_search, lines 154-193, and query_clickhouse_word_with_multi_stage,     *)
(* lines 219-267                                                            *)

DefaultTopN == 5

\* None where a list is expected, kept apart from every list the program
\* builds: their elements are (context, url) pairs or description texts
NoList == <<None>>

\* return None, None of ann_search (lines 171, 193)
NoResultLists == <<NoList, NoList>>

\* lines 191-193 catch every exception of ann_search; the hybrid strategy has
\* no try and lets it leave
OnException ==
    IF arg.fn = "ann_search" THEN Return(NoResultLists) ELSE RaiseOut

\* window_size of the call to get_surrounding_chunks: line 177 passes the
\* argument of ann_search, line 252 leaves the default
WindowOfFrame == IF arg.fn = "ann_search" THEN arg.window_size ELSE DefaultWindowSize

\* the locals of the loops of lines 173-189 and 248-264
RowLocals(rows) ==
    [sections |-> rows, i |-> 1, chunks |-> <<>>, pdf_filenames |-> <<>>,
     pdf_descriptions |-> <<>>, j |-> 1]

\* lines 156-171: the ranking query of ann_search
AnnQuery ==
    /\ pc = "ann_query"
    /\ \/ /\ arg.query_embedding = None
          /\ Return(NoResultLists)
          /\ UNCHANGED faults
       \/ /\ arg.query_embedding # None
          /\ faults < MaxFaults
          /\ faults' = faults + 1
          /\ Return(NoResultLists)
       \/ /\ arg.query_embedding # None
          /\ UNCHANGED faults
          /\ \E sections \in RankedTop(JoinRows(abc_chunks), arg.query_embedding, arg.top_n) :
                IF sections = <<>>
                THEN Return(NoResultLists)
                ELSE /\ pc' = "rows_for"
                     /\ loc' = RowLocals(sections)
                     /\ UNCHANGED <<arg, ret, raised, stack, calls>>
    /\ UNCHANGED store

\* lines 175-181 and 250-256: one row turned into (full_context, file_url)
RowsFor ==
    /\ pc = "rows_for"
    /\ IF loc.i > Len(loc.sections)
       THEN /\ pc' = "rows_desc"
            /\ UNCHANGED <<arg, ret, raised, faults, loc, stack, calls>>
       ELSE LET section == loc.sections[loc.i]
            IN  \E c \in get_surrounding_chunks(section.id, section.summary_id,
                                                WindowOfFrame, MaxFaults - faults) :
                   IF c.exc
                   THEN /\ faults' = faults + c.nf
                        /\ OnException
                   ELSE \E u \in get_original_filename(section.summary_id,
                                                       MaxFaults - faults - c.nf) :
                           /\ faults' = faults + c.nf + u.nf
                           /\ pc' = "rows_for"
                           /\ loc' = [loc EXCEPT
                                        !.i = @ + 1,
                                        !.chunks = Append(@, <<c.val, u.val>>),
                                        !.pdf_filenames =
                                            IF u.val # None /\ EndsWith(u.val, PdfExt)
                                            THEN Append(@, u.val) ELSE @]
                           /\ UNCHANGED <<arg, ret, raised, stack, calls>>
    /\ UNCHANGED store

\* lines 184-189 and 259-264: the descriptions of the first top_n pdf urls
RowsDesc ==
    /\ pc = "rows_desc"
    /\ LET names == Prefix(loc.pdf_filenames, arg.top_n)
       IN  IF loc.j > Len(names)
           THEN /\ Return(<<loc.chunks, loc.pdf_descriptions>>)
                /\ UNCHANGED faults
           ELSE \E d \in get_pdf_description(names[loc.j], MaxFaults - faults) :
                   /\ faults' = faults + d.nf
                   /\ pc' = "rows_desc"
                   /\ loc' = [loc EXCEPT !.j = @ + 1,
                                         !.pdf_descriptions = Append(@, d.val)]
                   /\ UNCHANGED <<arg, ret, raised, stack, calls>>
    /\ UNCHANGED store

ann_search == AnnQuery \/ RowsFor \/ RowsDesc

\* rows of the keyword query of lines 224-228
Stage1Rows(important_words) ==
    {c \in abc_chunks : KeywordMatch(c.chunk_text, important_words)}

\* the FROM and JOIN of the ranking query drawn from the whole chunk table
Stage2RowsOfAllChunks(important_words) == JoinRows(abc_chunks)

\* lines 238-241: the keyword query as a subquery, joined with abc_table
Stage2Rows(important_words) == JoinRows(Stage1Rows(important_words))

\* line 267: return ann_search(client, query_embedding, top_n=top_n)
FallbackToAnn ==
    Call("ann_query",
         [fn |-> "ann_search", query_embedding |-> arg.query_embedding,
          window_size |-> DefaultWindowSize, top_n |-> arg.top_n],
         "ms_return")

\* lines 220-231: the keyword query; with no match the strategy falls back
MsStage1 ==
    /\ pc = "ms_stage1"
    /\ \/ /\ arg.query_embedding = None       \* line 220 raises on None
          /\ RaiseOut
          /\ UNCHANGED faults
       \/ /\ arg.query_embedding # None
          /\ faults < MaxFaults
          /\ faults' = faults + 1
          /\ RaiseOut
       \/ /\ arg.query_embedding # None
          /\ UNCHANGED faults
          /\ IF Stage1Rows(arg.important_words) # {}
             THEN /\ pc' = "ms_stage2"
                  /\ loc' = [matched_chunks |-> Stage1Rows(arg.important_words)]
                  /\ UNCHANGED <<arg, ret, raised, stack, calls>>
             ELSE FallbackToAnn
    /\ UNCHANGED store

\* lines 233-247: the ranking of the matched chunks; with no row the strategy
\* falls back as well
MsStage2 ==
    /\ pc = "ms_stage2"
    /\ \/ /\ faults < MaxFaults
          /\ faults' = faults + 1
          /\ RaiseOut
       \/ /\ UNCHANGED faults
          /\ \E ranked_chunks \in RankedTop(Stage2Rows(arg.important_words),
                                            arg.query_embedding, arg.top_n) :
                IF ranked_chunks # <<>>
                THEN /\ pc' = "rows_for"
                     /\ loc' = RowLocals(ranked_chunks)
                     /\ UNCHANGED <<arg, ret, raised, stack, calls>>
                ELSE FallbackToAnn
    /\ UNCHANGED store

\* line 267: what ann_search returned is returned
MsReturn ==
    /\ pc = "ms_return"
    /\ Return(ret)
    /\ UNCHANGED <<store, faults>>

query_clickhouse_word_with_multi_stage == MsStage1 \/ MsStage2 \/ RowsFor \/ RowsDesc \/ MsReturn

-----------------------------------------------------------------------------
(* The selection strategies on small corpora *)

\* the chunk rows a corpus is drawn from; document "dx" is never in abc_table
SearchPool ==
    {[id |-> 0, summary_id |-> "d1", chunk_text |-> <<"a", Space, "b">>, embeddings |-> <<1, 0>>],
     [id |-> 1, summary_id |-> "d1", chunk_text |-> <<"B", Space, "a">>, embeddings |-> <<1, 1>>],
     [id |-> 0, summary_id |-> "d2", chunk_text |-> <<"A", "b">>, embeddings |-> <<1, 0>>],
     [id |-> 0, summary_id |-> "dx", chunk_text |-> <<"a", "b">>, embeddings |-> <<0, 1>>]}

SearchNames == {<<"a">> \o PdfExt, <<"b">> \o TxtExt, <<"c">> \o PdfExt \o PdfExt}

\* the rows of b_chunks JOIN b_table
BPool ==
    {[chunk_text |-> <<"a">>, summary_id |-> "d1", embeddings |-> <<1, 0>>],
     [chunk_text |-> <<"b">>, summary_id |-> "dx", embeddings |-> <<0, 1>>]}

QueryVectors == {<<1, 0>>, <<1, 1>>}

WordLists == {<<<<"a">>>>, <<<<"a">>, <<"b">>>>, <<<<"b">>, <<"a">>>>, <<<<"a", "a", "a">>>>}

SearchInit ==
    /\ archive_base_url = <<"h", Slash>>
    /\ \E ds \in SUBSET {"d1", "d2"} : abc_table \in [ds -> SearchNames]
    /\ abc_chunks \in SUBSET SearchPool
    /\ b_chunks \in SUBSET BPool
    /\ pc = "idle"
    /\ arg = <<>>
    /\ ret = <<>>
    /\ raised = FALSE
    /\ faults = 0
    /\ loc = <<>>
    /\ stack = <<>>
    /\ calls = <<>>

\* process_query_clickhouse, line 427: a single-best strategy on the embedding
\* of the query, None when generate_embeddings failed
CallSingleBest ==
    /\ pc = "idle"
    /\ \E fn \in {"cosine_similarity", "vector_search_cosine_distance", "euclidean_search"},
          q \in QueryVectors \cup {None} :
          arg' = [fn |-> fn, question_embedding |-> q]
    /\ pc' = "single_best"
    /\ UNCHANGED <<store, ret, raised, faults, loc, stack, calls>>

\* ann_search(client, query_embedding, window_size, top_n)
CallAnnSearch ==
    /\ pc = "idle"
    /\ \E q \in QueryVectors \cup {None}, w \in 0..MaxWindow, n \in (1..MaxTopN) \cup {DefaultTopN} :
          arg' = [fn |-> "ann_search", query_embedding |-> q, window_size |-> w, top_n |-> n]
    /\ pc' = "ann_query"
    /\ UNCHANGED <<store, ret, raised, faults, loc, stack, calls>>

\* query_clickhouse_word_with_multi_stage(client, important_words, query_embedding, top_n)
CallMultiStage ==
    /\ pc = "idle"
    /\ \E ws \in WordLists, q \in QueryVectors \cup {None}, n \in (1..MaxTopN) \cup {DefaultTopN} :
          arg' = [fn |-> "query_clickhouse_word_with_multi_stage", important_words |-> ws,
                  query_embedding |-> q, top_n |-> n]
    /\ pc' = "ms_stage1"
    /\ UNCHANGED <<store, ret, raised, faults, loc, stack, calls>>

SearchNext ==
    \/ CallSingleBest
    \/ cosine_similarity
    \/ vector_search_cosine_distance
    \/ euclidean_search
    \/ CallAnnSearch
    \/ CallMultiStage
    \/ ann_search
    \/ MsStage1
    \/ MsStage2
    \/ MsReturn

SpecSearch == SearchInit /\ [][SearchNext]_vars

-----------------------------------------------------------------------------
(* Properties of the selection strategies, checked under SpecSearch *)

MULTI_STAGE == "query_clickhouse_word_with_multi_stage"

\* the strategy called from the idle state has returned a list of entries
ReturnedEntries ==
    /\ pc = "done"
    /\ ~raised
    /\ arg.fn \in {"ann_search", MULTI_STAGE}
    /\ ret # NoResultLists

\* C4: no result entry produced by ann_search or
\* query_clickhouse_word_with_multi_stage carries a null url: an entry whose url
\* is still None after the fallback to get_random_filename is not returned.
NoReturnedEntryHasNullUrl ==
    ReturnedEntries => \A k \in 1..Len(ret[1]) : ret[1][k][2] # None

\* the embedding argument of a strategy
EmbeddingOf(a) ==
    IF a.fn \in {"ann_search", MULTI_STAGE} THEN a.query_embedding ELSE a.question_embedding

\* C8: a store fault never escapes a selection strategy: with an embedding
\* given, whatever store query raises during the call, the strategy does not
\* raise.
StoreFaultNeverEscapesStrategy ==
    (pc = "done" /\ EmbeddingOf(arg) # None) => ~raised

\* the calls of ann_search that have returned
AnnCalls == {k \in 1..Len(calls) : calls[k].arg.fn = "ann_search"}

\* the value returned is the value of a call ann_search(query_vector, top_n=top_n)
ReturnsWhatAnnSearchReturned ==
    \E k \in AnnCalls :
       /\ calls[k].arg.query_embedding = arg.query_embedding
       /\ calls[k].arg.top_n = arg.top_n
       /\ calls[k].arg.window_size = DefaultWindowSize
       /\ calls[k].ret = ret

\* every returned entry is derived from a chunk of subset: at most top_n
\* distinct chunks in descending cosine similarity, each entry the default
\* window of its chunk
DerivedFrom(subset) ==
    /\ ret # NoResultLists
    /\ Len(ret[1]) = Len(loc.sections)
    /\ Len(ret[1]) <= arg.top_n
    /\ \A k \in 1..Len(loc.sections) :
          /\ loc.sections[k] \in subset
          /\ ret[1][k][1] = WindowText(loc.sections[k].summary_id,
                                       loc.sections[k].id - DefaultWindowSize,
                                       loc.sections[k].id + DefaultWindowSize)
          /\ \A l \in (k + 1)..Len(loc.sections) :
                /\ loc.sections[l] # loc.sections[k]
                /\ CosGE(loc.sections[k].embeddings, loc.sections[l].embeddings,
                         arg.query_embedding)

\* the chunks the keyword pattern matches, and those of them with a document
KeywordSubset == {c \in abc_chunks : KeywordMatch(c.chunk_text, arg.important_words)}
KeywordSubsetWithDocument == {c \in KeywordSubset : c.summary_id \in DOMAIN abc_table}

MultiStageReturned == pc = "done" /\ ~raised /\ arg.fn = MULTI_STAGE

\* C6 as stated: query_clickhouse_word_with_multi_stage returns what
\* ann_search(query_vector, top_n=top_n) returns when Stage 1 matches no chunk,
\* and whenever Stage 1 matches a chunk every entry is derived from the Stage-1
\* subset, at most top_n in descending cosine similarity, and ann_search is
\* not consulted.
MultiStageFallsBackOnlyWithoutMatch ==
    MultiStageReturned =>
        IF KeywordSubset = {}
        THEN ReturnsWhatAnnSearchReturned
        ELSE AnnCalls = {} /\ DerivedFrom(KeywordSubset)

\* C6 amended: it returns what ann_search(query_vector, top_n=top_n) returns
\* when no chunk matched by Stage 1 belongs to a document of abc_table (Stage 1
\* matches nothing, or only chunks without a document); otherwise every entry is
\* derived from the Stage-1 subset, at most top_n in descending cosine
\* similarity, and ann_search is not consulted.
MultiStageFallsBackWithoutRankedRow ==
    MultiStageReturned =>
        IF KeywordSubsetWithDocument = {}
        THEN ReturnsWhatAnnSearchReturned
        ELSE AnnCalls = {} /\ DerivedFrom(KeywordSubset)

\* Stage 1 matches only a chunk without a document and the strategy returns the
\* entries of ann_search, taken from a chunk Stage 1 did not match
MultiStageFallsBackWitness ==
    /\ MultiStageReturned
    /\ KeywordSubset # {}
    /\ KeywordSubsetWithDocument = {}
    /\ ReturnsWhatAnnSearchReturned
    /\ faults = 0
    /\ ret # NoResultLists
    /\ Len(ret[1]) >= 1

-----------------------------------------------------------------------------
(* process_query_clickhouse_pdf(query_text, top_n=5), lines 436-485 *)

MaxDocs == 6
MaxPdfTopN == 6

\* line 445: top_n=20 of the hybrid search; line 448: top_n=5 of deduplicate_results
PdfSearchTopN == 20
PdfDedupTopN == 5

NO_DESCRIPTION == <<"No description available">>
NO_ADDITIONAL_FILE == <<"No additional unique file">>
NO_ADDITIONAL_DESCRIPTION == <<"No additional unique description available">>

\* lines 475-480: the placeholders of a query without words or without candidates
Placeholders(top_n) ==
    <<Repeat(NO_CONTENT, top_n), Repeat(NO_FILE, top_n), Repeat(NO_DESCRIPTION, top_n)>>

\* lines 482-485: the placeholders of the except clause
ErrorPlaceholders(top_n) ==
    <<Repeat(ERROR_OCCURRED, top_n), Repeat(ERROR_OCCURRED, top_n), Repeat(ERROR_OCCURRED, top_n)>>

\* list(dict.fromkeys(s)): the first occurrences, in order
RECURSIVE FromKeys(_)
FromKeys(s) ==
    IF s = <<>> THEN <<>>
    ELSE LET front == FromKeys(SubSeq(s, 1, Len(s) - 1))
             last == s[Len(s)]
         IN  IF \E k \in 1..Len(front) : front[k] = last THEN front ELSE Append(front, last)

\* what generate_embeddings may return: a vector, or None when it failed (lines 55-66)
PdfEmbeddings == {<<1, 0>>, None}

\* lines 441-445: the important words, the embedding and the hybrid search
PdfEnter ==
    /\ pc = "pdf_enter"
    /\ LET important_words == extract_important_words(arg.query_text)
       IN  IF important_words = <<>>
           THEN Return(Placeholders(arg.top_n))
           ELSE \E query_embedding \in PdfEmbeddings :
                   Call("ms_stage1",
                        [fn |-> "query_clickhouse_word_with_multi_stage",
                         important_words |-> important_words,
                         query_embedding |-> query_embedding,
                         top_n |-> PdfSearchTopN],
                        "pdf_searched")
    /\ UNCHANGED <<store, faults>>

\* lines 447-448 and 473-478: the candidates go to deduplicate_results, none
\* gives the placeholders
PdfSearched ==
    /\ pc = "pdf_searched"
    /\ LET closest_chunks == ret[1]
       IN  IF closest_chunks = NoList \/ closest_chunks = <<>>
           THEN Return(Placeholders(arg.top_n))
           ELSE Call("dedup_enter",
                     [fn |-> "deduplicate_results", closest_chunks |-> closest_chunks,
                      top_n |-> PdfDedupTopN],
                     "pdf_deduped")
    /\ UNCHANGED <<store, faults>>

\* line 451
PdfDeduped ==
    /\ pc = "pdf_deduped"
    /\ pc' = "pdf_while"
    /\ loc' = [full_contexts |-> ret[1], unique_filenames |-> FromKeys(ret[2]),
               pdf_descriptions |-> <<>>, k |-> 1]
    /\ UNCHANGED <<store, arg, ret, raised, faults, stack, calls>>

\* line 454
PdfWhile ==
    /\ pc = "pdf_while"
    /\ pc' = IF Len(loc.unique_filenames) < arg.top_n THEN "pdf_sample" ELSE "pdf_describe"
    /\ UNCHANGED <<store, arg, ret, raised, faults, loc, stack, calls>>

\* lines 455-457
PdfSample ==
    /\ pc = "pdf_sample"
    /\ \E o \in get_random_filename(MaxFaults - faults) :
          /\ faults' = faults + o.nf
          /\ loc' = IF UsableFiller(o.val, {loc.unique_filenames[k] :
                                              k \in 1..Len(loc.unique_filenames)})
                    THEN [loc EXCEPT !.unique_filenames = Append(@, o.val)]
                    ELSE loc
    /\ pc' = "pdf_while"
    /\ UNCHANGED <<store, arg, ret, raised, stack, calls>>

\* lines 459-472: one description per file name, then the three slices; the
\* test of line 461 raises TypeError on a None file name
PdfDescribe ==
    /\ pc = "pdf_describe"
    /\ IF loc.k > Len(loc.unique_filenames)
       THEN /\ Return(<<Prefix(loc.full_contexts, arg.top_n),
                        Prefix(loc.unique_filenames, arg.top_n),
                        Prefix(loc.pdf_descriptions, arg.top_n)>>)
            /\ UNCHANGED faults
       ELSE LET filename == loc.unique_filenames[loc.k]
            IN  IF filename = None
                THEN /\ Return(ErrorPlaceholders(arg.top_n))
                     /\ UNCHANGED faults
                ELSE IF Contains(filename, NO_ADDITIONAL_FILE)
                THEN /\ loc' = [loc EXCEPT !.k = @ + 1,
                                           !.pdf_descriptions =
                                               Append(@, NO_ADDITIONAL_DESCRIPTION)]
                     /\ UNCHANGED <<pc, arg, ret, raised, faults, stack, calls>>
                ELSE \E d \in get_pdf_description(filename, MaxFaults - faults) :
                        /\ faults' = faults + d.nf
                        /\ loc' = [loc EXCEPT !.k = @ + 1,
                                              !.pdf_descriptions = Append(@, d.val)]
                        /\ UNCHANGED <<pc, arg, ret, raised, stack, calls>>
    /\ UNCHANGED store

process_query_clickhouse_pdf ==
    \/ PdfEnter
    \/ PdfSearched
    \/ PdfDeduped
    \/ PdfWhile
    \/ PdfSample
    \/ PdfDescribe

\* document k of a corpus: file k.pdf, with one chunk when it has any
PdfDoc(k) == <<"d1", "d2", "d3", "d4", "d5", "d6", "d7", "d8">>[k]
PdfChunk(k) ==
    [id |-> 0, summary_id |-> PdfDoc(k), chunk_text |-> <<"b", Space, Digit(k)>>,
     embeddings |-> <<1, k>>]

\* "a a" has the stop word only, "a" matches no chunk text, "b" matches all
PdfQueries == {<<"a", "a">>, <<"a">>, <<"b">>}

PdfInit ==
    /\ archive_base_url = <<"h", Slash>>
    /\ \E nd \in 0..MaxDocs, nc \in 0..MaxDocs :
          /\ nc <= nd
          /\ abc_table = [d \in {PdfDoc(k) : k \in 1..nd} |->
                            <<Digit(CHOOSE k \in 1..nd : PdfDoc(k) = d)>> \o PdfExt]
          /\ abc_chunks = {PdfChunk(k) : k \in 1..nc}
    /\ b_chunks = {}
    /\ pc = "pdf_enter"
    /\ \E query_text \in PdfQueries, top_n \in 1..MaxPdfTopN :
          arg = [fn |-> "process_query_clickhouse_pdf", query_text |-> query_text,
                 top_n |-> top_n]
    /\ ret = <<>>
    /\ raised = FALSE
    /\ faults = 0
    /\ loc = <<>>
    /\ stack = <<>>
    /\ calls = <<>>

PdfNext ==
    \/ process_query_clickhouse_pdf
    \/ query_clickhouse_word_with_multi_stage
    \/ AnnQuery
    \/ deduplicate_results

SpecPdf == PdfInit /\ [][PdfNext]_vars

-----------------------------------------------------------------------------
(* Property of process_query_clickhouse_pdf, checked under SpecPdf *)

\* C10: on every return path of process_query_clickhouse_pdf(query_text, top_n)
\* and for every top_n >= 1, each of the three returned lists (contexts, urls,
\* descriptions) has exactly top_n elements.
PdfReturnsThreeListsOfTopN ==
    (pc = "done" /\ arg.fn = "process_query_clickhouse_pdf")
    => /\ Len(ret[1]) = arg.top_n
       /\ Len(ret[2]) = arg.top_n
       /\ Len(ret[3]) = arg.top_n

-----------------------------------------------------------------------------
(* process_query_clickhouse(query_text, search_method='ann_search'),        *)
(* lines 411-432                                                            *)

\* the keys of search_methods, lines 418-423
search_methods ==
    {"cosine_similarity", "vector_search_cosine_distance", "ann_search", "euclidean_search"}

\* a name that is no key of search_methods
OTHER_METHOD == "bm25"

\* return None, None of line 432, in the encoding of the values the method returns
NoAnswer(search_method) ==
    IF search_method = "ann_search" THEN NoResultLists ELSE NoResult

\* the truth value Python gives a string or None
TruthyText(x) == x # None /\ x # <<>>

\* the truth value Python gives a list or None
TruthyList(x) == x # NoList /\ x # <<>>

\* the call of the operation, search_method left out means 'ann_search' (line 411)
QueryCall ==
    /\ pc = "idle"
    /\ \E search_method \in search_methods \cup {OTHER_METHOD} :
          arg' = [fn |-> "process_query_clickhouse", search_method |-> search_method]
    /\ pc' = "pq_enter"
    /\ UNCHANGED <<store, ret, raised, faults, loc, stack, calls>>

\* lines 414-427 and 430-432: the embedding, then the function of the method
\* with its default arguments
QueryEnter ==
    /\ pc = "pq_enter"
    /\ \E question_embedding \in QueryVectors \cup {None} :
          IF question_embedding = None \/ arg.search_method \notin search_methods
          THEN Return(NoAnswer(arg.search_method))
          ELSE IF arg.search_method = "ann_search"
          THEN Call("ann_query",
                    [fn |-> "ann_search", query_embedding |-> question_embedding,
                     window_size |-> DefaultWindowSize, top_n |-> DefaultTopN],
                    "pq_returned")
          ELSE Call("single_best",
                    [fn |-> arg.search_method, question_embedding |-> question_embedding],
                    "pq_returned")
    /\ UNCHANGED <<store, faults>>

\* lines 427-432: the pair the method returned is returned when both of its
\* parts are true, None, None otherwise
QueryReturned ==
    /\ pc = "pq_returned"
    /\ LET chunk_text == ret[1]
           pdf_filename == ret[2]
           both == IF arg.search_method = "ann_search"
                   THEN TruthyList(chunk_text) /\ TruthyList(pdf_filename)
                   ELSE TruthyText(chunk_text) /\ TruthyText(pdf_filename)
       IN  IF both
           THEN Return(<<chunk_text, pdf_filename>>)
           ELSE Return(NoAnswer(arg.search_method))
    /\ UNCHANGED <<store, faults>>

process_query_clickhouse == QueryEnter \/ QueryReturned

QueryNext ==
    \/ QueryCall
    \/ process_query_clickhouse
    \/ cosine_similarity
    \/ vector_search_cosine_distance
    \/ euclidean_search
    \/ ann_search

SpecQuery == SearchInit /\ [][QueryNext]_vars

-----------------------------------------------------------------------------
(* Property of process_query_clickhouse, checked under SpecQuery *)

\* the operation has returned without a store fault, after calling the
\* function of its method: the embedding succeeded and the method is valid
QueryAnsweredBySearch ==
    /\ pc = "done"
    /\ arg.fn = "process_query_clickhouse"
    /\ faults = 0
    /\ Len(calls) = 2
    /\ calls[1].arg.fn = arg.search_method

\* the store has a chunk for the method to find, and its document is in abc_table
MatchingChunkResolves ==
    IF arg.search_method = "ann_search"
    THEN JoinRows(abc_chunks) # {}
    ELSE b_chunks # {} /\ \A r \in b_chunks : r.summary_id \in DOMAIN abc_table

\* C11: for each of the four method names of process_query_clickhouse, when
\* the embedding succeeds and the store returns at least one matching chunk
\* whose url resolves, the operation returns a non-null answer, not
\* (None, None).
QueryReturnsAnswerWhenChunkResolves ==
    (QueryAnsweredBySearch /\ MatchingChunkResolves)
    => ret # NoAnswer(arg.search_method)

====
